---- MODULE Spec2Model ----
(***************************************************************************)
(* Chess Analyzer (src/main.py): the interaction loop of the board viewer. *)
(* The state is the module-level state of main.py: the position, the       *)
(* selection and promotion fields, the two toggles, the cached analysis,   *)
(* and the life cycle of the main loop and of the engine subprocess.       *)
(* Spec takes a loop iteration as one step; SpecEngine follows the         *)
(* analysis tick call by call, with the wall clock.                        *)
(***************************************************************************)
EXTENDS Integers, FiniteSets, Sequences, TLC

\* ------------------------------------------------------------------------
\* Display constants (main.py, lines 11-15)
\* ------------------------------------------------------------------------
WIDTH == 850
HEIGHT == 800
BOARD_SIZE == 800
SQUARE_SIZE == BOARD_SIZE \div 8
EVAL_BAR_WIDTH == 50

\* ------------------------------------------------------------------------
\* Bounds of the model
\* ------------------------------------------------------------------------
\* moves pushed onto the position in one run
MaxPlies == 1
\* the last wall-clock reading of Spec, in steps of TimeStep
MaxTime == 3
\* the moves the engine chooses its answer among, of a position's legal moves
MaxEngineMoves == 1
\* SpecEngine: no frame begins after this clock reading, in milliseconds
MaxClock == 450

\* ------------------------------------------------------------------------
\* The chess-rules collaborator (python-chess), as main.py uses it
\* ------------------------------------------------------------------------
PAWN == 1
KNIGHT == 2
BISHOP == 3
ROOK == 4
QUEEN == 5
KING == 6

\* chess.WHITE is True, chess.BLACK is False
ChessWHITE == TRUE
ChessBLACK == FALSE

\* Python's None, for a square, a promotion kind and an empty square
None == -1
NoPiece == 0

SQUARES == 0 .. 63

\* a piece is its kind, plus 8 for a Black piece
Piece(t, c) == IF c THEN t ELSE t + 8
piece_type(p) == p % 8
piece_color(p) == p < 8

square(col, row) == row * 8 + col
square_file(sq) == sq % 8
square_rank(sq) == sq \div 8

Abs(n) == IF n < 0 THEN -n ELSE n
Sign(n) == IF n < 0 THEN -1 ELSE IF n > 0 THEN 1 ELSE 0
Max2(a, b) == IF a > b THEN a ELSE b

\* chess.Move(from_square, to_square, promotion=None)
Move(f, t, p) == [from_square |-> f, to_square |-> t, promotion |-> p]
NoMove == Move(None, None, None)

\* the truth value of a chess.Move (if promotion_pending, elif best_move):
\* None and the null move are false
MoveBool(m) ==
    /\ m # NoMove
    /\ (m.from_square # 0 \/ m.to_square # 0 \/ m.promotion # None)

\* board.piece_at(square); the position keeps its occupied squares
piece_at(b, sq) == IF sq \in DOMAIN b.at THEN b.at[sq] ELSE NoPiece

\* the squares strictly between two squares of one line
Between(f, t) ==
    LET df == square_file(t) - square_file(f)
        dr == square_rank(t) - square_rank(f)
        n == Max2(Abs(df), Abs(dr))
    IN { square(square_file(f) + k * Sign(df), square_rank(f) + k * Sign(dr)) :
            k \in 1 .. (n - 1) }

PathClear(b, f, t) == \A s \in Between(f, t) : piece_at(b, s) = NoPiece

\* the direction a pawn of colour c advances in
Forward(c) == IF c THEN 1 ELSE -1

\* does the piece on f attack square t
Attacks(b, f, t) ==
    LET p == piece_at(b, f)
        df == square_file(t) - square_file(f)
        dr == square_rank(t) - square_rank(f)
        k == piece_type(p)
    IN /\ p # NoPiece
       /\ f # t
       /\ CASE k = PAWN -> Abs(df) = 1 /\ dr = Forward(piece_color(p))
            [] k = KNIGHT -> {Abs(df), Abs(dr)} = {1, 2}
            [] k = KING -> Max2(Abs(df), Abs(dr)) = 1
            [] k = ROOK -> (df = 0 \/ dr = 0) /\ PathClear(b, f, t)
            [] k = BISHOP -> Abs(df) = Abs(dr) /\ PathClear(b, f, t)
            [] k = QUEEN -> (df = 0 \/ dr = 0 \/ Abs(df) = Abs(dr)) /\ PathClear(b, f, t)
            [] OTHER -> FALSE

\* is the king of colour c attacked
InCheck(b, c) ==
    \E ks \in SQUARES :
        /\ piece_at(b, ks) = Piece(KING, c)
        /\ \E f \in SQUARES :
              /\ piece_at(b, f) # NoPiece
              /\ piece_color(piece_at(b, f)) # c
              /\ Attacks(b, f, ks)

\* the farthest rank of a pawn of colour c
LastRank(c) == IF c THEN 7 ELSE 0
HomeRank(c) == IF c THEN 1 ELSE 6

\* the squares, the side to move and the move count after a move
Apply(b, m) ==
    LET p == piece_at(b, m.from_square)
        q == IF m.promotion # None THEN Piece(m.promotion, piece_color(p)) ELSE p
    IN [at |-> [s \in (DOMAIN b.at \ {m.from_square}) \cup {m.to_square} |->
                  IF s = m.to_square THEN q ELSE b.at[s]],
        turn |-> ~b.turn,
        ply |-> b.ply + 1]

\* a move of the side to move that follows the moving piece's rules
PseudoLegal(b, m) ==
    LET f == m.from_square
        t == m.to_square
    IN /\ f \in SQUARES /\ t \in SQUARES /\ f # t
       /\ LET p == piece_at(b, f)
              c == piece_color(p)
              df == square_file(t) - square_file(f)
              dr == square_rank(t) - square_rank(f)
          IN /\ p # NoPiece
             /\ c = b.turn
             /\ (piece_at(b, t) = NoPiece \/ piece_color(piece_at(b, t)) # c)
             /\ IF piece_type(p) = PAWN
                THEN /\ \/ df = 0 /\ dr = Forward(c) /\ piece_at(b, t) = NoPiece
                        \/ /\ df = 0 /\ dr = 2 * Forward(c)
                           /\ square_rank(f) = HomeRank(c)
                           /\ piece_at(b, t) = NoPiece
                           /\ PathClear(b, f, t)
                        \/ Abs(df) = 1 /\ dr = Forward(c) /\ piece_at(b, t) # NoPiece
                     /\ IF square_rank(t) = LastRank(c)
                        THEN m.promotion \in {QUEEN, ROOK, BISHOP, KNIGHT}
                        ELSE m.promotion = None
                ELSE Attacks(b, f, t) /\ m.promotion = None

\* the promotion kinds a move from f to t may carry
PromotionKinds(b, f, t) ==
    IF piece_type(piece_at(b, f)) = PAWN /\ square_rank(t) = LastRank(piece_color(piece_at(b, f)))
    THEN {QUEEN, ROOK, BISHOP, KNIGHT}
    ELSE {None}

\* the legal moves of a position: the moves of the side to move that do not
\* leave its king attacked
LegalMoves(b) ==
    UNION { UNION { { m \in { Move(f, t, p) : p \in PromotionKinds(b, f, t) } :
                        PseudoLegal(b, m) /\ ~InCheck(Apply(b, m), b.turn) } :
                    t \in SQUARES } :
            f \in { s \in SQUARES : piece_at(b, s) # NoPiece /\ piece_color(piece_at(b, s)) = b.turn } }

\* a chess.Board: the squares, the side to move, the number of moves pushed
\* and board.legal_moves
Board(at, turn, ply) ==
    [at |-> at, turn |-> turn, ply |-> ply,
     legal_moves |-> LegalMoves([at |-> at, turn |-> turn, ply |-> ply])]

\* board.push(move)
Push(b, m) ==
    LET after == Apply(b, m)
    IN Board(after.at, after.turn, after.ply)

\* a mutant of InLegalMoves: the side to move is not looked at
InLegalMoves_AnySide(b, m) ==
    \/ m \in b.legal_moves
    \/ m \in LegalMoves([at |-> b.at, turn |-> ~b.turn, ply |-> b.ply])

\* a mutant of InLegalMoves: the move's truth value stands in for its legality
InLegalMoves_Truthy(b, m) == MoveBool(m)

\* move in board.legal_moves
InLegalMoves(b, m) == m \in b.legal_moves

\* the engine's score of a position, in centipawns from White's side:
\* the balance of material
PieceValue(p) ==
    LET k == piece_type(p)
        v == CASE k = PAWN -> 100 [] k = KNIGHT -> 300 [] k = BISHOP -> 300
               [] k = ROOK -> 500 [] k = QUEEN -> 900 [] OTHER -> 0
    IN IF piece_color(p) THEN v ELSE -v

RECURSIVE Material(_, _)
Material(b, n) == IF n < 0 THEN 0 ELSE PieceValue(piece_at(b, n)) + Material(b, n - 1)

\* the score is info['score'].white().score(mate_score=10000) / 100; a side
\* to move that is checkmated scores as mated, a stalemate as 0
\* the first MaxEngineMoves moves of a set, in the order of their squares
MoveKey(m) == (m.from_square * 64 + m.to_square) * 8 + m.promotion

FirstMoves(moves) ==
    { m \in moves : Cardinality({ n \in moves : MoveKey(n) < MoveKey(m) }) < MaxEngineMoves }

\* what the engine answers in one analysis tick: the score of engine.analyse
\* and result.move of engine.play, a legal move, or None when the position
\* has none.  The score counts the pieces after a search of 100 ms; the
\* answers of the 1 ms searches of engine.play are not tied to it
\* what line 137 can find in the answer of the mate query, lines 135-140:
\* a forced-mate score or another one; without aggressive_mate there is no
\* mate query
MateAnswers(aggressive) == IF aggressive THEN BOOLEAN ELSE { FALSE }

EngineResults(b) ==
    LET moves == FirstMoves(b.legal_moves)
    IN IF moves = {}
       THEN { [move |-> NoMove,
               score |-> IF InCheck(b, b.turn)
                         THEN (IF b.turn THEN -10000 ELSE 10000) \div 100
                         ELSE 0] }
       ELSE { [move |-> m, score |-> Material(b, 63) \div 100] : m \in moves }

\* ------------------------------------------------------------------------
\* The state of main.py
\* ------------------------------------------------------------------------
VARIABLES
    board,                  \* chess.Board(): squares, side to move, move count
    selected_square,
    promotion_pending,
    show_promotion_dialog,
    aggressive_mate,
    white_at_bottom,
    best_move,
    evaluation,
    last_analysis_time,
    running,                \* the flag of the while loop
    pc,                     \* "loop", "ended" (left the loop), "crashed";
                            \* in SpecEngine also the line of the tick
    engine,                 \* the engine subprocess: "running" or "quit"
    mate_found,             \* history: best_move is the mate_move line 144
                            \* returned (it was drawn at line 143)
    now,                    \* SpecEngine: the wall clock, in milliseconds
    outstanding,            \* SpecEngine: engine requests not yet answered
    query_start,            \* SpecEngine: when the last engine request began
    current_time            \* SpecEngine: the clock reading of line 383

vars == << board, selected_square, promotion_pending, show_promotion_dialog,
           aggressive_mate, white_at_bottom, best_move, evaluation,
           last_analysis_time, running, pc, engine, mate_found,
           now, outstanding, query_start, current_time >>

interaction == << selected_square, promotion_pending, show_promotion_dialog >>
toggles == << aggressive_mate, white_at_bottom >>
analysis == << best_move, evaluation, last_analysis_time >>
lifecycle == << running, pc, engine >>
requests == << now, outstanding, query_start, current_time >>

\* ------------------------------------------------------------------------
\* Pure helpers of main.py
\* ------------------------------------------------------------------------
\* is_promotion_move(move), lines 198-206
is_promotion_move(b, m) ==
    LET piece == piece_at(b, m.from_square)
    IN /\ piece # NoPiece
       /\ piece_type(piece) = PAWN
       /\ \/ piece_color(piece) = ChessWHITE /\ square_rank(m.to_square) = 7
          \/ piece_color(piece) = ChessBLACK /\ square_rank(m.to_square) = 0

\* the promotion dialog's rectangle, lines 255-258
dialog_width == 4 * SQUARE_SIZE
dialog_height == SQUARE_SIZE
dialog_x == (WIDTH - dialog_width) \div 2
dialog_y == (HEIGHT - dialog_height) \div 2

\* a mutant of promotion_pieces: Rook and Bishop change places
promotion_pieces_swapped == << QUEEN, BISHOP, ROOK, KNIGHT >>

\* promotion_pieces = [chess.QUEEN, chess.ROOK, chess.BISHOP, chess.KNIGHT]
promotion_pieces == << QUEEN, ROOK, BISHOP, KNIGHT >>

\* handle_promotion_click: the index of the piece a click at (x, y) chooses,
\* lines 260-268; None when the click chooses none
piece_index(x, y) ==
    IF /\ dialog_x <= x /\ x <= dialog_x + dialog_width
       /\ dialog_y <= y /\ y <= dialog_y + dialog_height
       /\ 0 <= (x - dialog_x) \div SQUARE_SIZE
       /\ (x - dialog_x) \div SQUARE_SIZE < Len(promotion_pieces)
    THEN (x - dialog_x) \div SQUARE_SIZE
    ELSE None

\* does handle_promotion_click(pos) return True (the click is consumed)
promotion_click_handled(x, y) ==
    /\ show_promotion_dialog
    /\ MoveBool(promotion_pending)
    /\ piece_index(x, y) # None

\* the move handle_promotion_click builds, lines 270-274
promotion_move(x, y) ==
    Move(promotion_pending.from_square, promotion_pending.to_square,
         promotion_pieces[piece_index(x, y) + 1])

\* a mutant of flip_board: the key always puts White at the top
flip_board_to_top(wab) == FALSE

\* line 363: white_at_bottom = not white_at_bottom
flip_board(wab) == ~wab

\* a mutant of click_col: the width of the evaluation bar is not taken off
click_col_without_bar(x, wab) ==
    LET col == x \div SQUARE_SIZE
    IN IF ~wab THEN 7 - col ELSE col

\* the click-to-square mapping of the main loop, lines 323-333: the square a
\* click at (x, y) lands on, None outside the board
click_col(x, wab) ==
    LET col == (x - EVAL_BAR_WIDTH) \div SQUARE_SIZE
    IN IF ~wab THEN 7 - col ELSE col

click_row(y, wab) ==
    LET row == 7 - (y \div SQUARE_SIZE)
    IN IF ~wab THEN 7 - row ELSE row

click_square(x, y, wab) ==
    IF /\ 0 <= click_col(x, wab) /\ click_col(x, wab) < 8
       /\ 0 <= click_row(y, wab) /\ click_row(y, wab) < 8
    THEN square(click_col(x, wab), click_row(y, wab))
    ELSE None

\* the drawing mapping of draw_pieces, lines 94-108: the top left pixel of the
\* cell square q is drawn in
draw_col(q, wab) == IF ~wab THEN 7 - square_file(q) ELSE square_file(q)
draw_row(q, wab) == IF ~wab THEN 7 - square_rank(q) ELSE square_rank(q)
draw_x(q, wab) == EVAL_BAR_WIDTH + draw_col(q, wab) * SQUARE_SIZE
draw_y(q, wab) == (7 - draw_row(q, wab)) * SQUARE_SIZE

\* the colours of the best-move arrow, lines 23-24, and no arrow
RED == << 255, 0, 0 >>
BLUE == << 0, 0, 255 >>
NoArrow == << >>

\* lines 390-392: the arrow a frame without a tick draws
cached_arrow_color ==
    IF MoveBool(best_move)
    THEN (IF aggressive_mate THEN BLUE ELSE RED)
    ELSE NoArrow

\* lines 142-149: the arrow the frame of a tick draws, BLUE for the mate_move
\* of line 143, RED for the result.move of line 149 (stated of the state the
\* tick ends in)
tick_arrow_color ==
    IF mate_found THEN BLUE
    ELSE IF MoveBool(best_move) THEN RED ELSE NoArrow

\* line 374: draw_eval_bar(evaluation) runs before the tick of lines 384-389,
\* so the evaluation a frame shows was stored by the tick at
\* last_analysis_time as the frame finds it (0: by no tick)
shown_evaluation_tick == last_analysis_time

\* reset_promotion_state(), lines 289-294
reset_promotion_state ==
    /\ promotion_pending' = NoMove
    /\ show_promotion_dialog' = FALSE
    /\ selected_square' = None

\* ------------------------------------------------------------------------
\* Init: the module-level state of main.py when the loop is entered
\* ------------------------------------------------------------------------
\* The position the run starts from: a position of a game in progress, in
\* which a promotion is one move away.  White, to move: Kh1, pawn a7.
\* Black: Kh8, pawn h2.
StartPieces ==
    (48 :> Piece(PAWN, ChessWHITE)) @@ (7 :> Piece(KING, ChessWHITE)) @@
    (63 :> Piece(KING, ChessBLACK)) @@ (15 :> Piece(PAWN, ChessBLACK))

StartBoards ==
    { Board(StartPieces, ChessWHITE, 0) }

\* Times are in milliseconds.  time.time() > 0.1 at the first frame: the
\* clock reads seconds since 1970.  The clock readings of Spec are every
\* TimeStep-th millisecond from StartTime on
ANALYSIS_INTERVAL == 100
TimeStep == 100
StartTime == 2 * TimeStep
Times == { k * TimeStep : k \in 2 .. MaxTime }

Init ==
    /\ board \in StartBoards
    /\ selected_square = None
    /\ promotion_pending = NoMove
    /\ show_promotion_dialog = FALSE
    /\ aggressive_mate = FALSE
    /\ white_at_bottom = TRUE
    /\ best_move = NoMove
    /\ evaluation = 0
    /\ last_analysis_time = 0
    /\ running = TRUE
    /\ pc = "loop"
    /\ engine = "running"
    /\ mate_found = FALSE
    /\ now = StartTime
    /\ outstanding = 0
    /\ query_start = None
    /\ current_time = 0

\* ------------------------------------------------------------------------
\* MOUSEBUTTONDOWN, lines 316-355
\* ------------------------------------------------------------------------
\* lines 318-320 with handle_promotion_click, lines 249-285: the click chose
\* a promotion piece and is consumed
ClickPromotion(x, y) ==
    /\ pc = "loop"
    /\ UNCHANGED << mate_found, requests >>
    /\ promotion_click_handled(x, y)
    /\ reset_promotion_state
    /\ UNCHANGED << toggles, analysis, lifecycle >>
    /\ IF InLegalMoves(board, promotion_move(x, y))
       THEN /\ board.ply < MaxPlies
            /\ board' = Push(board, promotion_move(x, y))
       ELSE board' = board

\* line 332 fails: the click is outside the board
ClickOutside(x, y) ==
    /\ pc = "loop"
    /\ ~promotion_click_handled(x, y)
    /\ click_square(x, y, white_at_bottom) = None
    /\ UNCHANGED vars

\* lines 335-337
ClickSelect(x, y) ==
    /\ pc = "loop"
    /\ UNCHANGED << mate_found, requests >>
    /\ ~promotion_click_handled(x, y)
    /\ click_square(x, y, white_at_bottom) # None
    /\ selected_square = None
    /\ selected_square' = click_square(x, y, white_at_bottom)
    /\ UNCHANGED << board, promotion_pending, show_promotion_dialog,
                    toggles, analysis, lifecycle >>

\* lines 340-347
ClickOpenDialog(x, y) ==
    /\ pc = "loop"
    /\ UNCHANGED << mate_found, requests >>
    /\ ~promotion_click_handled(x, y)
    /\ click_square(x, y, white_at_bottom) # None
    /\ selected_square # None
    /\ LET move == Move(selected_square, click_square(x, y, white_at_bottom), None)
       IN /\ is_promotion_move(board, move)
          /\ promotion_pending' = move
          /\ show_promotion_dialog' = TRUE
    /\ UNCHANGED << board, selected_square, toggles, analysis, lifecycle >>

\* lines 348-352
ClickMove(x, y) ==
    /\ pc = "loop"
    /\ UNCHANGED requests
    /\ ~promotion_click_handled(x, y)
    /\ click_square(x, y, white_at_bottom) # None
    /\ selected_square # None
    /\ UNCHANGED << promotion_pending, show_promotion_dialog, toggles,
                    evaluation, last_analysis_time, lifecycle >>
    /\ LET move == Move(selected_square, click_square(x, y, white_at_bottom), None)
       IN /\ ~is_promotion_move(board, move)
          /\ InLegalMoves(board, move)
          /\ board.ply < MaxPlies
          /\ best_move' = NoMove
          /\ mate_found' = FALSE
          /\ selected_square' = None
          /\ board' = Push(board, move)

\* lines 353-355
ClickDeselect(x, y) ==
    /\ pc = "loop"
    /\ UNCHANGED << mate_found, requests >>
    /\ ~promotion_click_handled(x, y)
    /\ click_square(x, y, white_at_bottom) # None
    /\ selected_square # None
    /\ LET move == Move(selected_square, click_square(x, y, white_at_bottom), None)
       IN /\ ~is_promotion_move(board, move)
          /\ ~InLegalMoves(board, move)
          /\ selected_square' = None
    /\ UNCHANGED << board, promotion_pending, show_promotion_dialog,
                    toggles, analysis, lifecycle >>

MouseButtonDown(x, y) ==
    \/ ClickPromotion(x, y)
    \/ ClickOutside(x, y)
    \/ ClickSelect(x, y)
    \/ ClickOpenDialog(x, y)
    \/ ClickMove(x, y)
    \/ ClickDeselect(x, y)

\* ------------------------------------------------------------------------
\* KEYDOWN, lines 357-370, and QUIT, lines 313-314
\* ------------------------------------------------------------------------
\* a mutant of KeyM: the key also drops the selection
KeyM_Deselects ==
    /\ pc = "loop"
    /\ UNCHANGED << mate_found, requests >>
    /\ aggressive_mate' = ~aggressive_mate
    /\ selected_square' = None
    /\ UNCHANGED << board, promotion_pending, show_promotion_dialog,
                    white_at_bottom, analysis, lifecycle >>

KeyM ==
    /\ pc = "loop"
    /\ UNCHANGED << mate_found, requests >>
    /\ aggressive_mate' = ~aggressive_mate
    /\ UNCHANGED << board, interaction, white_at_bottom, analysis, lifecycle >>

KeyP ==
    /\ pc = "loop"
    /\ UNCHANGED << mate_found, requests >>
    /\ white_at_bottom' = flip_board(white_at_bottom)
    /\ UNCHANGED << board, interaction, aggressive_mate, analysis, lifecycle >>

\* a mutant of KeyEscape: closing the dialog keeps the selection
KeyEscape_KeepsSelection ==
    /\ pc = "loop"
    /\ UNCHANGED << mate_found, requests >>
    /\ IF show_promotion_dialog
       THEN /\ promotion_pending' = NoMove
            /\ show_promotion_dialog' = FALSE
            /\ selected_square' = selected_square
       ELSE /\ selected_square' = None
            /\ UNCHANGED << promotion_pending, show_promotion_dialog >>
    /\ UNCHANGED << board, toggles, analysis, lifecycle >>

KeyEscape ==
    /\ pc = "loop"
    /\ UNCHANGED << mate_found, requests >>
    /\ IF show_promotion_dialog
       THEN reset_promotion_state
       ELSE /\ selected_square' = None
            /\ UNCHANGED << promotion_pending, show_promotion_dialog >>
    /\ UNCHANGED << board, toggles, analysis, lifecycle >>

Quit ==
    /\ pc = "loop"
    /\ UNCHANGED << mate_found, requests >>
    /\ running' = FALSE
    /\ UNCHANGED << board, interaction, toggles, analysis, pc, engine >>

\* ------------------------------------------------------------------------
\* The rest of a loop iteration, lines 372-400, and the loop's end,
\* lines 310 and 402-404
\* ------------------------------------------------------------------------
\* the while condition after the iteration: when running is False the loop
\* is left and line 404 quits the engine
LoopEnd ==
    /\ running' = running
    /\ pc' = IF running THEN "loop" ELSE "ended"
    /\ engine' = IF running THEN engine ELSE "quit"

\* line 384 is false: no engine query in this frame (the clock reading t is
\* not before the last analysis)
Render(t) ==
    /\ pc = "loop"
    /\ UNCHANGED << mate_found, requests >>
    /\ t >= last_analysis_time
    /\ ~(t - last_analysis_time > ANALYSIS_INTERVAL)
    /\ LoopEnd
    /\ UNCHANGED << board, interaction, toggles, analysis >>

\* lines 384-389 with get_and_highlight_best_move, lines 132-150: the engine
\* answers every query.  is_mate is what line 137 finds in the answer of the
\* 1 ms mate query of line 136 (not asked unless aggressive_mate); r.move is
\* the move line 144 or line 150 returns
Analyse(t) ==
    /\ pc = "loop"
    /\ UNCHANGED requests
    /\ t - last_analysis_time > ANALYSIS_INTERVAL
    /\ \E r \in EngineResults(board) : \E is_mate \in MateAnswers(aggressive_mate) :
          /\ evaluation' = r.score
          /\ best_move' = r.move
          /\ mate_found' = (is_mate /\ MoveBool(r.move))
    /\ last_analysis_time' = t
    /\ LoopEnd
    /\ UNCHANGED << board, interaction, toggles >>

\* lines 384-389 when an engine call raises (the engine died or timed out):
\* nothing catches the exception, the script ends at that line.  first is
\* TRUE when engine.analyse is the call that raises, FALSE when engine.play
AnalyseRaises(t, first) ==
    /\ pc = "loop"
    /\ UNCHANGED << mate_found, requests >>
    /\ t - last_analysis_time > ANALYSIS_INTERVAL
    /\ evaluation' = IF first THEN evaluation
                      ELSE (CHOOSE r \in EngineResults(board) : TRUE).score
    /\ pc' = "crashed"
    /\ UNCHANGED << board, interaction, toggles, best_move, last_analysis_time,
                    running, engine >>

\* ------------------------------------------------------------------------
\* The clicks of the model: a pixel of the evaluation bar, one in each of the
\* files a and h and of the ranks 1, 2, 7 and 8 (the same squares on the
\* flipped board), and a row of the promotion dialog: its four icons and its
\* right edge
\* ------------------------------------------------------------------------
BoardXs == {25, 100, 800}
BoardYs == {50, 150, 650, 750}
DialogXs == {225, 375, 475, 575, 625}
DialogYs == {400}
Clicks == (BoardXs \X BoardYs) \cup (DialogXs \X DialogYs)

Next ==
    \/ \E c \in Clicks : MouseButtonDown(c[1], c[2])
    \/ KeyM
    \/ KeyP
    \/ KeyEscape
    \/ Quit
    \/ \E t \in Times : Render(t)
    \/ \E t \in Times : Analyse(t)
    \/ \E t \in Times : \E first \in BOOLEAN : AnalyseRaises(t, first)

Spec == Init /\ [][Next]_vars

\* ------------------------------------------------------------------------
\* SpecEngine: the frame of lines 372-400 call by call.  Every engine call
\* of chess.engine.SimpleEngine blocks until its answer: pc is the line the
\* script waits at ("analyse" line 386, "play_mate" line 136, "play" line
\* 147) or has reached ("line135", "line147"), and "loop" between frames,
\* where the events of lines 312-370 are handled.  The position stays the
\* one of Init: the events are the toggle-mate key and the window close.
\* ------------------------------------------------------------------------
FPS == 60
\* the time limits of the engine calls, in milliseconds: Limit(time=0.1) of
\* line 386, Limit(time=.001) of lines 136 and 147
ANALYSE_LIMIT == 100
PLAY_LIMIT == 1
\* what an engine call can take, in milliseconds: the engine answers at its
\* limit, before it (a search that ends early) or a process round trip late
ROUND_TRIP == 20
AnalyseTimes == {ANALYSE_LIMIT \div 2, ANALYSE_LIMIT, ANALYSE_LIMIT + ROUND_TRIP}
PlayTimes == {PLAY_LIMIT, PLAY_LIMIT + ROUND_TRIP}

\* lines 372-383 and 390-400, line 384 is false: a frame without a tick;
\* clock.tick(FPS) fills the frame up to 1/FPS seconds
FrameWithoutTick ==
    /\ pc = "loop"
    /\ now < MaxClock
    /\ ~(now - last_analysis_time > ANALYSIS_INTERVAL)
    /\ current_time' = now
    /\ now' = now + 1000 \div FPS
    /\ LoopEnd
    /\ UNCHANGED << board, interaction, toggles, analysis, mate_found,
                    outstanding, query_start >>

\* lines 383-386: line 384 is true, engine.analyse is called
CallAnalyse ==
    /\ pc = "loop"
    /\ now < MaxClock
    /\ now - last_analysis_time > ANALYSIS_INTERVAL
    /\ current_time' = now
    /\ pc' = "analyse"
    /\ outstanding' = outstanding + 1
    /\ query_start' = now
    /\ UNCHANGED << board, interaction, toggles, analysis, mate_found,
                    running, engine, now >>

\* a mutant of ReturnAnalyse: the script goes on before the answer is there
ReturnAnalyse_NotAwaited(took) ==
    /\ pc = "analyse"
    /\ now' = now + took
    /\ pc' = "line135"
    /\ UNCHANGED << board, interaction, toggles, analysis, mate_found,
                    running, engine, outstanding, query_start, current_time >>

\* lines 386-388: engine.analyse answers, evaluation is stored and
\* get_and_highlight_best_move is entered
ReturnAnalyse(took) ==
    /\ pc = "analyse"
    /\ now' = now + took
    /\ outstanding' = outstanding - 1
    /\ \E r \in EngineResults(board) : evaluation' = r.score
    /\ pc' = "line135"
    /\ UNCHANGED << board, interaction, toggles, best_move, last_analysis_time,
                    mate_found, running, engine, query_start, current_time >>

\* lines 135-136: the mate query is called
CallPlayMate ==
    /\ pc = "line135"
    /\ aggressive_mate
    /\ pc' = "play_mate"
    /\ outstanding' = outstanding + 1
    /\ query_start' = now
    /\ UNCHANGED << board, interaction, toggles, analysis, mate_found,
                    running, engine, now, current_time >>

\* lines 137-144 and 388-400: the mate query answers.  With a forced-mate
\* score and a move, the move is drawn and returned and the frame ends;
\* otherwise line 147 is next
ReturnPlayMate(took, is_mate) ==
    /\ pc = "play_mate"
    /\ now' = now + took
    /\ outstanding' = outstanding - 1
    /\ \E r \in EngineResults(board) :
          IF is_mate /\ MoveBool(r.move)
          THEN /\ best_move' = r.move
               /\ mate_found' = TRUE
               /\ last_analysis_time' = current_time
               /\ LoopEnd
          ELSE /\ pc' = "line147"
               /\ UNCHANGED << best_move, mate_found, last_analysis_time,
                               running, engine >>
    /\ UNCHANGED << board, interaction, toggles, evaluation, query_start,
                    current_time >>

\* line 147: the best-move query is called, by line 135 without
\* aggressive_mate or after a mate query that found no mate
CallPlay ==
    /\ \/ pc = "line135" /\ ~aggressive_mate
       \/ pc = "line147"
    /\ pc' = "play"
    /\ outstanding' = outstanding + 1
    /\ query_start' = now
    /\ UNCHANGED << board, interaction, toggles, analysis, mate_found,
                    running, engine, now, current_time >>

\* lines 147-150 and 388-400: the best-move query answers and the frame ends
ReturnPlay(took) ==
    /\ pc = "play"
    /\ now' = now + took
    /\ outstanding' = outstanding - 1
    /\ \E r \in EngineResults(board) : best_move' = r.move
    /\ mate_found' = FALSE
    /\ last_analysis_time' = current_time
    /\ LoopEnd
    /\ UNCHANGED << board, interaction, toggles, evaluation, query_start,
                    current_time >>

\* an engine call raises instead of answering: nothing catches it
EngineCallRaises ==
    /\ pc \in {"analyse", "play_mate", "play"}
    /\ pc' = "crashed"
    /\ outstanding' = outstanding - 1
    /\ UNCHANGED << board, interaction, toggles, analysis, mate_found,
                    running, engine, now, query_start, current_time >>

NextEngine ==
    \/ KeyM
    \/ Quit
    \/ FrameWithoutTick
    \/ CallAnalyse
    \/ \E took \in AnalyseTimes : ReturnAnalyse(took)
    \/ CallPlayMate
    \/ \E took \in PlayTimes : \E is_mate \in BOOLEAN : ReturnPlayMate(took, is_mate)
    \/ CallPlay
    \/ \E took \in PlayTimes : ReturnPlay(took)
    \/ EngineCallRaises

SpecEngine == Init /\ [][NextEngine]_vars

\* ------------------------------------------------------------------------
\* Definitions the properties are stated with
\* ------------------------------------------------------------------------
\* the icon drawn under pixel (x, y) by draw_promotion_dialog, lines 233-239:
\* icon i (Queen, Rook, Bishop, Knight) is a square of side SQUARE_SIZE at
\* (dialog_x + i * SQUARE_SIZE, dialog_y); None under no icon
icon_at(x, y) ==
    IF \E i \in 0 .. 3 :
          /\ dialog_x + i * SQUARE_SIZE <= x /\ x < dialog_x + (i + 1) * SQUARE_SIZE
          /\ dialog_y <= y /\ y < dialog_y + SQUARE_SIZE
    THEN CHOOSE i \in 0 .. 3 :
          /\ dialog_x + i * SQUARE_SIZE <= x /\ x < dialog_x + (i + 1) * SQUARE_SIZE
          /\ dialog_y <= y /\ y < dialog_y + SQUARE_SIZE
    ELSE None

\* the piece kinds of the icons, in the order they are drawn in (line 233)
icon_kinds == << QUEEN, ROOK, BISHOP, KNIGHT >>

\* the clicks of the model that land on an icon, and those that land on none
IconClicks == { c \in Clicks : icon_at(c[1], c[2]) # None }
OffIconClicks == Clicks \ IconClicks

\* the square holds a piece of the side to move
OwnPiece(b, sq) ==
    /\ sq \in SQUARES
    /\ piece_at(b, sq) # NoPiece
    /\ piece_color(piece_at(b, sq)) = b.turn

\* a pawn stands on f and t is a square a pawn's move can take it to (one
\* step ahead, two from its home rank, or one step diagonally ahead)
IsPawnMove(b, f, t) ==
    LET p == piece_at(b, f)
        df == square_file(t) - square_file(f)
        dr == square_rank(t) - square_rank(f)
    IN /\ p # NoPiece
       /\ piece_type(p) = PAWN
       /\ \/ df = 0 /\ dr = Forward(piece_color(p))
          \/ df = 0 /\ dr = 2 * Forward(piece_color(p)) /\ square_rank(f) = HomeRank(piece_color(p))
          \/ Abs(df) = 1 /\ dr = Forward(piece_color(p))

\* a pending-promotion move of position b: a pawn stands on its from-square
\* and its to-square is on that pawn's farthest rank
IsPendingPromotion(b, m) ==
    /\ m.from_square \in SQUARES
    /\ m.to_square \in SQUARES
    /\ piece_at(b, m.from_square) # NoPiece
    /\ piece_type(piece_at(b, m.from_square)) = PAWN
    /\ square_rank(m.to_square) = LastRank(piece_color(piece_at(b, m.from_square)))

\* the state Idle of the interaction
Idle ==
    /\ selected_square = None
    /\ promotion_pending = NoMove
    /\ ~show_promotion_dialog

\* ------------------------------------------------------------------------
\* Properties
\* ------------------------------------------------------------------------
\* C1: while the promotion dialog is open, a click that lands on none of the
\* four promotion icons changes neither the position, the selection, the
\* pending promotion, the dialog flag nor the best move.
C1_ClickOffIconsIsNoOp ==
    [][ \A c \in OffIconClicks :
          ( /\ show_promotion_dialog
            /\ MouseButtonDown(c[1], c[2]) )
          => UNCHANGED << board, selected_square, promotion_pending,
                          show_promotion_dialog, best_move >> ]_vars

\* C2: every step that pushes a move onto the position sets best_move to
\* null, and in every state a non-null best_move is a legal move of the
\* current position.
C2_BestMoveLegalInPosition ==
    /\ [](MoveBool(best_move) => best_move \in board.legal_moves)
    /\ [][board' # board => best_move' = NoMove]_vars

\* C3: in every state an open promotion dialog implies that no square is
\* selected.
C3_DialogImpliesNoSelection ==
    show_promotion_dialog => selected_square = None

\* C4: in every state an open promotion dialog implies that promotion_pending
\* is non-null and is a pending-promotion move of the current position.
C4_DialogImpliesPendingPromotion ==
    show_promotion_dialog =>
        MoveBool(promotion_pending) /\ IsPendingPromotion(board, promotion_pending)

\* C5: with no dialog open and a selected square that is empty or holds a
\* piece of the side not to move, no step (no click of any kind) changes the
\* position.
C5_ForeignSelectionKeepsPosition ==
    [][ ( /\ ~show_promotion_dialog
          /\ selected_square # None
          /\ ~OwnPiece(board, selected_square) )
        => board' = board ]_vars

\* C5 witness: a square that holds no piece of the side to move is selected,
\* no dialog is open.
C5_Witness ==
    /\ ~show_promotion_dialog
    /\ selected_square = 63
    /\ piece_at(board, 63) = Piece(KING, ChessBLACK)
    /\ board.turn = ChessWHITE

\* C6: the position changes only in a click step, and then to the result of
\* pushing a move that is legal in the position before the step; key events,
\* frames and rejected clicks leave it unchanged.
C6_PositionChangesByLegalPush ==
    [][ board' # board =>
          /\ \E m \in board.legal_moves : board' = Push(board, m)
          /\ \E c \in Clicks : MouseButtonDown(c[1], c[2])
          /\ ~(KeyM \/ KeyP \/ KeyEscape \/ Quit)
          /\ ~(\E t \in Times : Render(t) \/ Analyse(t) \/ AnalyseRaises(t, TRUE)
                                  \/ AnalyseRaises(t, FALSE)) ]_vars

\* C6 witness: the king's capture on h2 has been pushed.
C6_Witness ==
    /\ board.ply = 1
    /\ piece_at(board, 15) = Piece(KING, ChessWHITE)
    /\ board.turn = ChessBLACK

\* C7: whenever the main loop has ended, by a window close or by an engine
\* call raising, the engine has been quit.
C7_EngineQuitOnEveryExit ==
    pc # "loop" => engine = "quit"

\* C8: a frame in which an engine call raises leaves the loop running and
\* evaluation and best_move as they were.
C8_EngineFailureKeepsLoop ==
    [][ (\E t \in Times : \E first \in BOOLEAN : AnalyseRaises(t, first))
        => /\ pc' = "loop"
           /\ evaluation' = evaluation
           /\ best_move' = best_move ]_vars

\* C9: in every position, for every pair of squares, is_promotion_move is
\* true exactly of the pawn moves that reach the pawn's farthest rank.
C9_PromotionMoveIffPawnMoveToLastRank ==
    \A f \in SQUARES : \A t \in SQUARES :
        is_promotion_move(board, Move(f, t, None))
        <=> ( /\ IsPawnMove(board, f, t)
              /\ square_rank(t) = LastRank(piece_color(piece_at(board, f))) )

\* C10: with the dialog open, a click on icon i builds the pending move with
\* the i-th kind (Queen, Rook, Bishop, Knight), pushes it exactly when it is
\* legal, and ends in Idle.
C10_IconClickPromotesAndResets ==
    [][ \A c \in IconClicks :
          ( /\ show_promotion_dialog
            /\ MoveBool(promotion_pending)
            /\ MouseButtonDown(c[1], c[2]) )
          => LET chosen == Move(promotion_pending.from_square,
                                promotion_pending.to_square,
                                icon_kinds[icon_at(c[1], c[2]) + 1])
             IN /\ Idle'
                /\ board' = IF chosen \in board.legal_moves
                            THEN Push(board, chosen) ELSE board ]_vars

\* C10 witness: the pawn has been promoted to a rook on a8 and the state is
\* Idle.
C10_Witness ==
    /\ piece_at(board, 56) = Piece(ROOK, ChessWHITE)
    /\ board.ply = 1
    /\ Idle

\* a pawn move to the pawn's farthest rank, before the promotion piece is
\* chosen
PromotionCandidate(b, m) ==
    /\ IsPawnMove(b, m.from_square, m.to_square)
    /\ square_rank(m.to_square) = LastRank(piece_color(piece_at(b, m.from_square)))

\* pixels of the window, with the edges of the evaluation bar and of cells
PixelXs == {0, 49, 50, 149, 150, 449, 450, 749, 750, 849}
PixelYs == {0, 99, 100, 399, 400, 699, 700, 799}
BarXs == {0, 25, 49}
BarYs == {0, 400, 799}
\* the first and the last pixel of a cell, along either axis
CellOffsets == {0, SQUARE_SIZE - 1}

\* C11: a frame draws the best-move arrow in the forced-mate colour exactly
\* when the move it shows was returned as a forced mate by the mate query,
\* in the frame of the tick and in the frames after it; a tick with
\* aggressive_mate off asks no mate query.
C11_MateColourIffMateMove ==
    /\ []( (pc = "loop" /\ MoveBool(best_move))
            => (cached_arrow_color = BLUE <=> mate_found) )
    /\ [][ (\E t \in Times : Analyse(t))
            => /\ (tick_arrow_color' = BLUE <=> mate_found')
               /\ (~aggressive_mate => ~mate_found') ]_vars

\* C12: the frame of a tick that shows a best move shows the evaluation of
\* that same tick.
C12_FrameShowsOneTick ==
    [][ \A t \in Times :
          (Analyse(t) /\ MoveBool(best_move'))
          => shown_evaluation_tick = t ]_vars

\* C15: after a flip-board key press, a second press gives back the click
\* mapping of every pixel and the drawing mapping of every square as they
\* were before the first.
C15_TwoFlipsRestoreMapping ==
    [][ KeyP =>
          /\ \A x \in PixelXs : \A y \in PixelYs :
                click_square(x, y, flip_board(white_at_bottom'))
                = click_square(x, y, white_at_bottom)
          /\ \A q \in SQUARES :
                /\ draw_x(q, flip_board(white_at_bottom')) = draw_x(q, white_at_bottom)
                /\ draw_y(q, flip_board(white_at_bottom')) = draw_y(q, white_at_bottom) ]_vars

\* C15 witness: the board has been flipped once, with a square selected on
\* the flipped board.
C15_Witness ==
    /\ ~white_at_bottom
    /\ selected_square # None

\* C16: in Idle, a click on a square that holds no piece of the side to move,
\* or outside the board, leaves the state Idle.
C16_IdleClickSelectsOwnPieceOnly ==
    [][ \A c \in Clicks :
          ( /\ Idle
            /\ ~OwnPiece(board, click_square(c[1], c[2], white_at_bottom))
            /\ MouseButtonDown(c[1], c[2]) )
          => Idle' ]_vars

\* C17: with a square s selected and no dialog open, a click on a square d
\* for which Move(s, d) is no promotion candidate ends in Idle; the move is
\* pushed and best_move cleared when it is legal, the position and best_move
\* are kept when it is not.
C17_MoveAttemptEndsInIdle ==
    [][ \A c \in Clicks :
          LET d == click_square(c[1], c[2], white_at_bottom)
              m == Move(selected_square, d, None)
          IN ( /\ ~show_promotion_dialog
               /\ selected_square # None
               /\ d # None
               /\ ~PromotionCandidate(board, m)
               /\ MouseButtonDown(c[1], c[2]) )
             => /\ Idle'
                /\ IF m \in board.legal_moves
                   THEN board' = Push(board, m) /\ best_move' = NoMove
                   ELSE board' = board /\ best_move' = best_move ]_vars

\* C18: an Escape key press ends in Idle and changes neither the position,
\* the best move, the evaluation nor the two toggles.
C18_EscapeLeadsToIdle ==
    [][ KeyEscape
        => /\ Idle'
           /\ UNCHANGED << board, best_move, evaluation, aggressive_mate,
                           white_at_bottom >> ]_vars

\* C18 witness: the promotion dialog is open with a pending move and a
\* selected square, the state Escape has most to reset in.
C18_Witness ==
    /\ show_promotion_dialog
    /\ MoveBool(promotion_pending)
    /\ selected_square # None
    /\ MoveBool(best_move)

\* C19: the toggle-mate key changes only aggressive_mate, the flip-board key
\* only white_at_bottom, and an analysis tick only evaluation, best_move and
\* last_analysis_time; none of them changes the selection, the pending
\* promotion, the dialog flag or the position.
C19_KeysAndTickKeepInteraction ==
    [][ /\ KeyM => UNCHANGED << board, interaction, white_at_bottom, running,
                                best_move, evaluation, last_analysis_time >>
        /\ KeyP => UNCHANGED << board, interaction, aggressive_mate, running,
                                best_move, evaluation, last_analysis_time >>
        /\ (\E t \in Times : Analyse(t))
           => UNCHANGED << board, interaction, aggressive_mate, white_at_bottom,
                           running >> ]_vars

\* C19 witness: both keys have been pressed and a tick has run while the
\* promotion dialog was open.
C19_Witness ==
    /\ aggressive_mate
    /\ ~white_at_bottom
    /\ show_promotion_dialog
    /\ selected_square # None
    /\ MoveBool(best_move)

\* C20: in the orientation of every state (both are reached) a click on the
\* first or the last pixel of the cell square q is drawn in resolves to q, a
\* click in the evaluation-bar column resolves to no square, and a click
\* that resolves to no square changes nothing.
C20_ClickMappingInvertsDrawing ==
    /\ [](\A q \in SQUARES : \A d \in CellOffsets :
              click_square(draw_x(q, white_at_bottom) + d,
                           draw_y(q, white_at_bottom) + d, white_at_bottom) = q)
    /\ [](\A x \in BarXs : \A y \in BarYs :
              click_square(x, y, white_at_bottom) = None)
    /\ [][ \A c \in Clicks :
             ( /\ click_square(c[1], c[2], white_at_bottom) = None
               /\ MouseButtonDown(c[1], c[2]) )
             => UNCHANGED vars ]_vars

\* C20 witness: on the flipped board a1, drawn in the top right cell, is
\* selected.
C20_Witness ==
    /\ ~white_at_bottom
    /\ selected_square = 0
    /\ ~show_promotion_dialog

\* C13: when an engine request begins, at least 100 ms have passed since the
\* request before it began.
C13_QueriesAtLeast100msApart ==
    [][ (query_start' # query_start /\ query_start # None)
        => query_start' - query_start >= ANALYSIS_INTERVAL ]_vars

\* C14: at most one engine request is outstanding, and a request begins only
\* when none is.
C14_OneOutstandingRequest ==
    /\ [](outstanding \in {0, 1})
    /\ [][outstanding' > outstanding => outstanding = 0]_vars

\* C14 witness: the third request of a tick, the best-move query after a
\* mate query that found no mate, is outstanding.
C14_Witness ==
    /\ pc = "play"
    /\ aggressive_mate
    /\ outstanding = 1
    /\ query_start > current_time

====
